---- MODULE Spec2Model ----
(***************************************************************************)
(* Model of src/device/tee.rs: the slot key manager (get_keypair,          *)
(* provision, compact_key_in_slot, generate_compact_key_in_slot) and the   *)
(* self tests (Test::run, check_miner_key, check_sign, check_ecdh).        *)
(*                                                                         *)
(* A call is modelled as a caller p that enters a function, takes one step *)
(* per call into the secure-element driver or the crypto library (the      *)
(* value of pc[p] is the source line of the next such call), reaches       *)
(* "done" holding its result and then returns.  The driver and the crypto  *)
(* library are the environment: each of their calls nondeterministically   *)
(* succeeds or fails.                                                      *)
(***************************************************************************)
EXTENDS Naturals, Sequences, FiniteSets

\* ------------------------------------------------------------------ bounds
\* Slot indexes 0..MaxSlot (u8 in the source).
MaxSlot == 0
\* Callers.
NProcs == 2
\* Calls entered in one behaviour.
MaxCalls == 2
\* Length in bytes of an ECDH shared secret in the model.
SecretLen == 1
\* Driver calls one call makes while calls are interleaved.
MaxDriverCalls == 4

\* -------------------------------------------------------- program constants
\* The counter started one too high.
TryCount_OneMore == 10 + 1

\* let mut try_count = 10;
TryCount == 10
\* const DATA: &[u8] = b"hello world";
DATA == "hello world"

Slots == 0..MaxSlot
Procs == 1..NProcs

\* ------------------------------------------------------------ slot contents
\* What a hardware slot holds: nothing, or a key whose stored bytes decode
\* into a compact keypair (valid) or do not.
NoKey == [present |-> FALSE, id |-> 0, valid |-> FALSE]
Key(i, v) == [present |-> TRUE, id |-> i, valid |-> v]

\* ------------------------------------------------------------------ values
NoErr == [kind |-> "", from |-> ""]
Error(k, f) == [kind |-> k, from |-> f]
NoKeypair == [kind |-> "none", slot |-> 0, id |-> 0]
\* tee::Keypair, the hardware handle the driver returns.
TeeKeypair(s, i) == [kind |-> "tee", slot |-> s, id |-> i]
\* impl From<tee::Keypair> for Keypair: wraps the handle in the generic type.
Into(h) == [kind |-> "Keypair::TEE", slot |-> h.slot, id |-> h.id]
\* keypair.public_key()
public_key(kp) == [kind |-> kp.kind, id |-> kp.id]

\* A driver or library outcome: Result<T, Error>.
DrvOk(h) == [ok |-> TRUE, h |-> h, err |-> NoErr]
DrvErr(e) == [ok |-> FALSE, h |-> NoKeypair, err |-> e]
NoOutcome == [ok |-> FALSE, h |-> NoKeypair, err |-> NoErr]

\* --------------------------------------------------------------- the driver
\* tee::Keypair::keypair(slot, Network::MainNet): fails with a hardware error
\* when the slot is empty or the call fails, with a format error when the
\* stored bytes do not decode.
KeypairOutcomes(s, c) ==
    IF ~c.present THEN {DrvErr(Error("HardwareError", "keypair"))}
    ELSE IF ~c.valid
         THEN {DrvErr(Error("FormatError", "keypair")),
               DrvErr(Error("HardwareError", "keypair"))}
         ELSE {DrvOk(TeeKeypair(s, c.id)),
               DrvErr(Error("HardwareError", "keypair"))}

\* gen_ecc_keypair(slot) succeeding: the slot holds a fresh key, which the
\* system may or may not be able to decode.
GenWritten(i) == {Key(i, v) : v \in BOOLEAN}
\* gen_ecc_keypair(slot) failing: the slot is untouched or holds garbage.
GenFailed(c, i) == {c, Key(i, FALSE)}
\* del_ecc_keypair(slot) succeeding erases the slot.
DelWritten == NoKey
\* del_ecc_keypair(slot) failing: the slot is untouched or already erased.
DelFailed(c) == {c, NoKey}


\* ------------------------------------------------------- the crypto library
NoSignature == [signer |-> 0, msg |-> "", intact |-> FALSE]
SigOk(g) == [ok |-> TRUE, sig |-> g, err |-> NoErr]
SigErr(e) == [ok |-> FALSE, sig |-> NoSignature, err |-> e]
\* keypair.sign(DATA) on a hardware keypair: the secure element signs with
\* the key the slot holds; it may fail, or hand back a damaged signature.
SignOutcomes(kp, c, msg) ==
    {SigErr(Error("CryptoError", "sign"))}
    \cup (IF c.present /\ c.valid
          THEN {SigOk([signer |-> c.id, msg |-> msg, intact |-> b]) : b \in BOOLEAN}
          ELSE {})
\* public_key.verify(msg, &signature): Ok(()) exactly for an undamaged
\* signature of msg made by the key of this public key.
Verify(pk, msg, g) ==
    IF g.signer = pk.id /\ g.msg = msg /\ g.intact
    THEN [ok |-> TRUE, err |-> NoErr]
    ELSE [ok |-> FALSE, err |-> Error("CryptoError", "verify")]

\* The largest value of a u8, the type of Device.slot and of a Test's slot.
MaxU8 == 255

\* Bytes a shared secret is made of in the model.
ByteVals == {0, 175}
Secrets == [1..SecretLen -> ByteVals]
SecretOk(b) == [ok |-> TRUE, bytes |-> b, err |-> NoErr]
SecretErr(e) == [ok |-> FALSE, bytes |-> <<>>, err |-> e]
\* a.ecdh(b_public): a shared secret, or an error.
EcdhOutcomes(from) ==
    {SecretOk(b) : b \in Secrets} \cup {SecretErr(Error("CryptoError", from))}

\* format!("{:#02x}", bytes): two lower-case hexadecimal digits per byte.
HexDigits == <<"0", "1", "2", "3", "4", "5", "6", "7",
               "8", "9", "a", "b", "c", "d", "e", "f">>
HexByte(b) == <<HexDigits[(b \div 16) + 1], HexDigits[(b % 16) + 1]>>
RECURSIVE Hex(_)
Hex(bytes) ==
    IF bytes = <<>> THEN <<>>
    ELSE HexByte(Head(bytes)) \o Hex(Tail(bytes))

\* ----------------------------------------------------------------- results
NoValue == [lit |-> "", pk |-> public_key(NoKeypair)]
\* What a call returns.  tag "ok"/"err" is a Result<Keypair>; "pass",
\* "mismatch" and "error" are the three shapes of a TestResult.
Res(t, k, e, v, x, a) ==
    [tag |-> t, keypair |-> k, err |-> e, value |-> v, expected |-> x, actual |-> a]
NoResult == Res("none", NoKeypair, NoErr, NoValue, <<>>, <<>>)
Ok(k) == Res("ok", k, NoErr, NoValue, <<>>, <<>>)
Err(e) == Res("err", NoKeypair, e, NoValue, <<>>, <<>>)
\* test::pass(value).into()
pass(v) == Res("pass", NoKeypair, NoErr, v, <<>>, <<>>)
\* test::expected(expected, actual).into()
expected(x, a) == Res("mismatch", NoKeypair, NoErr, NoValue, x, a)
\* the ? operator inside a function returning TestResult
TestErr(e) == Res("error", NoKeypair, e, NoValue, <<>>, <<>>)
PassOk == [lit |-> "ok", pk |-> public_key(NoKeypair)]
PassKey(pk) == [lit |-> "", pk |-> pk]

\* -------------------------------------------------------------------- state
VARIABLES
    slots,                \* the secure element: slot index -> contents
    calls,                \* calls entered so far
    pc,                   \* per caller: idle, the source line of its next call, done
    op,                   \* per caller: the function it is in and its arguments
    try_count,            \* per caller: generate_compact_key_in_slot's counter
    keypair,              \* per caller: the check's local keypair
    signature,            \* per caller: check_sign's local signature
    ecc_shared_secret,    \* per caller: check_ecdh's first ECDH outcome
    other_shared_secret,  \* per caller: check_ecdh's second ECDH outcome
    result,               \* per caller: the value the call returns
    trace,                \* per caller: driver and library calls of this call, in order
    lastGet,              \* per caller: outcome of its latest retrieval
    pre,                  \* per caller: the slots as they were when the call was entered
    lastGen,              \* per caller: the key it last generated and has not deleted since
    sched,                \* how callers are admitted: "single", "lock" or "free"
    device,               \* Device.slot of the device asked for its tests
    tests,                \* what get_tests returned
    shown,                \* the Test last formatted
    name                  \* its display name

locals == <<try_count, keypair, signature, ecc_shared_secret, other_shared_secret>>
\* What no call into the slot key manager or the self tests changes.
aside == <<sched, device, tests, shown, name>>
vars == <<slots, calls, pc, op, locals, result, trace, lastGet, pre, lastGen, aside>>

NoOp == [fn |-> "", create |-> FALSE, test |-> "", slot |-> 0]
NoSecret == SecretErr(NoErr)
Called(c, ok) == [call |-> c, ok |-> ok]

RECURSIVE Count(_, _)
\* Number of calls named c in a trace.
Count(tr, c) ==
    IF tr = <<>> THEN 0
    ELSE (IF Head(tr).call = c THEN 1 ELSE 0) + Count(Tail(tr), c)

\* Identities of the keys held or referred to anywhere.
UsedIds ==
    {slots[s].id : s \in Slots}
    \cup UNION {{pre[p][s].id : s \in Slots} : p \in Procs}
    \cup {keypair[p].id : p \in Procs}
    \cup {signature[p].signer : p \in Procs}
    \cup {lastGet[p].h.id : p \in Procs}
    \cup {lastGen[p].id : p \in Procs}
    \cup {result[p].keypair.id : p \in Procs}
    \cup {result[p].value.pk.id : p \in Procs}
\* The identity of a freshly generated key: one no key in use has (the
\* least such, identities being opaque).
FreshKey ==
    LET free == {n \in 1..(Cardinality(UsedIds) + 1) : n \notin UsedIds}
    IN CHOOSE n \in free : \A m \in free : n <= m

NoSlots == [s \in Slots |-> NoKey]

\* Slot contents a device can be found in before any call.
InitContents(s) == {NoKey, Key(s + 1, TRUE), Key(s + 1, FALSE)}

\* The secure element and the callers before any call.
HwInit ==
    /\ slots \in {f \in [Slots -> UNION {InitContents(s) : s \in Slots}] :
                    \A s \in Slots : f[s] \in InitContents(s)}
    /\ calls = 0
    /\ pc = [p \in Procs |-> "idle"]
    /\ op = [p \in Procs |-> NoOp]
    /\ try_count = [p \in Procs |-> 0]
    /\ keypair = [p \in Procs |-> NoKeypair]
    /\ signature = [p \in Procs |-> NoSignature]
    /\ ecc_shared_secret = [p \in Procs |-> NoSecret]
    /\ other_shared_secret = [p \in Procs |-> NoSecret]
    /\ result = [p \in Procs |-> NoResult]
    /\ trace = [p \in Procs |-> <<>>]
    /\ lastGet = [p \in Procs |-> NoOutcome]
    /\ pre = [p \in Procs |-> NoSlots]
    /\ lastGen = [p \in Procs |-> NoKey]

\* enum Test: a kind and the slot it exercises.
Test(kind, s) == [kind |-> kind, slot |-> s]
NoTest == Test("", 0)

\* Nothing asked of the device yet.
NothingShown ==
    /\ tests = <<>>
    /\ shown = NoTest
    /\ name = <<>>

Init ==
    /\ HwInit
    /\ sched = "single"
    /\ device = 0
    /\ NothingShown

\* Section 5 of the design: single-threaded, synchronous execution; a call is
\* entered only when no other call is in progress.
Exclusive == \A q \in Procs : pc[q] = "idle"
\* A lock per slot index, taken by the caller around a call: no other call
\* on slot s is in progress.
SlotFree(s) == \A q \in Procs : pc[q] = "idle" \/ op[q].slot # s
\* Whether a call on slot s may be entered now.
Admit(s) ==
    CASE sched = "single" -> Exclusive
      [] sched = "lock" -> SlotFree(s)
      [] sched = "free" -> TRUE

\* A caller enters function o at line l.
Enter(p, o, l) ==
    /\ pc[p] = "idle"
    /\ calls < MaxCalls
    /\ calls' = calls + 1
    /\ pc' = [pc EXCEPT ![p] = l]
    /\ op' = [op EXCEPT ![p] = o]
    /\ pre' = [pre EXCEPT ![p] = slots]
    /\ UNCHANGED <<slots, keypair, signature, ecc_shared_secret,
                   other_shared_secret, result, trace, lastGet, lastGen, aside>>

\* A caller finishes with result r.
Finish(p, r) ==
    /\ pc' = [pc EXCEPT ![p] = "done"]
    /\ result' = [result EXCEPT ![p] = r]

Log(p, c, ok) == trace' = [trace EXCEPT ![p] = Append(@, Called(c, ok))]


\* ---------------------------------------------------------- slot key manager
\* The branch on create taken the wrong way round.
GetKeypairEntry_Swapped(create) == IF create THEN "get52" ELSE "gen82"

\* Device::get_keypair(create): the branch on create (lines 49-53).
GetKeypairEntry(create) == IF create THEN "gen82" ELSE "get52"

get_keypair(p, s, create, fn) ==
    /\ Admit(s)
    /\ Enter(p, [fn |-> fn, create |-> create, test |-> "", slot |-> s],
             GetKeypairEntry(create))
    /\ try_count' = [try_count EXCEPT ![p] = IF create THEN TryCount ELSE @]

\* Device::get_keypair called by a user of the device.
GetKeypair(p) ==
    \E s \in Slots, create \in BOOLEAN : get_keypair(p, s, create, "get_keypair")

\* Device::provision: self.get_keypair(true).
provision(p) ==
    \E s \in Slots : get_keypair(p, s, TRUE, "provision")

\* compact_key_in_slot called from get_keypair(false) (line 52): the driver's
\* outcome, converted, is the call's result.
CompactKeyResult(r) == IF r.ok THEN Ok(Into(r.h)) ELSE Err(r.err)

GetKeypairRetrieve(p) ==
    /\ pc[p] = "get52"
    /\ \E r \in KeypairOutcomes(op[p].slot, slots[op[p].slot]) :
          /\ lastGet' = [lastGet EXCEPT ![p] = r]
          /\ Log(p, "keypair", r.ok)
          /\ Finish(p, CompactKeyResult(r))
    /\ UNCHANGED <<slots, calls, op, locals, pre, lastGen, aside>>

\* generate_compact_key_in_slot, line 82: gen_ecc_keypair(slot)?
GenOk(p) ==
    /\ pc[p] = "gen82"
    /\ \E c \in GenWritten(FreshKey) :
          /\ slots' = [slots EXCEPT ![op[p].slot] = c]
          /\ lastGen' = [lastGen EXCEPT ![p] = c]
    /\ Log(p, "gen", TRUE)
    /\ pc' = [pc EXCEPT ![p] = "get84"]
    /\ UNCHANGED <<calls, op, locals, result, lastGet, pre, aside>>

\* A failed generation treated like a failed retrieval: the slot is deleted
\* and the generation tried again.
GenFail_Retry(p) ==
    /\ pc[p] = "gen82"
    /\ \E c \in GenFailed(slots[op[p].slot], FreshKey) :
          slots' = [slots EXCEPT ![op[p].slot] = c]
    /\ Log(p, "gen", FALSE)
    /\ pc' = [pc EXCEPT ![p] = "del89"]
    /\ UNCHANGED <<calls, op, locals, result, lastGet, pre, lastGen, aside>>

GenFail(p) ==
    /\ pc[p] = "gen82"
    /\ \E c \in GenFailed(slots[op[p].slot], FreshKey) :
          slots' = [slots EXCEPT ![op[p].slot] = c]
    /\ Log(p, "gen", FALSE)
    /\ Finish(p, Err(Error("HardwareError", "gen_ecc_keypair")))
    /\ UNCHANGED <<calls, op, locals, lastGet, pre, lastGen, aside>>

\* The match without the deletion: a failed retrieval goes straight back to
\* the generation.
LoopMatch_NoDelete(r, tc) ==
    IF r.ok
    THEN [pc |-> "done", try_count |-> tc, result |-> Ok(Into(r.h))]
    ELSE IF tc = 0
         THEN [pc |-> "done", try_count |-> tc, result |-> Err(r.err)]
         ELSE [pc |-> "gen82", try_count |-> tc - 1, result |-> NoResult]

\* The match giving up one attempt early.
LoopMatch_OffByOne(r, tc) ==
    IF r.ok
    THEN [pc |-> "done", try_count |-> tc, result |-> Ok(Into(r.h))]
    ELSE IF tc <= 1
         THEN [pc |-> "done", try_count |-> tc, result |-> Err(r.err)]
         ELSE [pc |-> "del89", try_count |-> tc - 1, result |-> NoResult]

\* The match that never counts a retry.
LoopMatch_NoDecrement(r, tc) ==
    IF r.ok
    THEN [pc |-> "done", try_count |-> tc, result |-> Ok(Into(r.h))]
    ELSE IF tc = 0
         THEN [pc |-> "done", try_count |-> tc, result |-> Err(r.err)]
         ELSE [pc |-> "del89", try_count |-> tc, result |-> NoResult]

\* The match that retries hardware errors only: a format error is returned
\* at once.
LoopMatch_FormatFatal(r, tc) ==
    IF r.ok
    THEN [pc |-> "done", try_count |-> tc, result |-> Ok(Into(r.h))]
    ELSE IF tc = 0 \/ r.err.kind = "FormatError"
         THEN [pc |-> "done", try_count |-> tc, result |-> Err(r.err)]
         ELSE [pc |-> "del89", try_count |-> tc - 1, result |-> NoResult]

\* The match that takes the keypair and then goes on to delete the slot.
LoopMatch_DeleteAfterOk(r, tc) ==
    IF r.ok
    THEN [pc |-> "del89", try_count |-> tc, result |-> Ok(Into(r.h))]
    ELSE IF tc = 0
         THEN [pc |-> "done", try_count |-> tc, result |-> Err(r.err)]
         ELSE [pc |-> "del89", try_count |-> tc - 1, result |-> NoResult]

\* The match counting every retry twice.
LoopMatch_DoubleDecrement(r, tc) ==
    IF r.ok
    THEN [pc |-> "done", try_count |-> tc, result |-> Ok(Into(r.h))]
    ELSE IF tc = 0
         THEN [pc |-> "done", try_count |-> tc, result |-> Err(r.err)]
         ELSE [pc |-> "del89", try_count |-> tc - 2, result |-> NoResult]

\* generate_compact_key_in_slot, lines 84-88: the match on the retrieval's
\* outcome r with the counter at tc.  Gives the next line, the counter and
\* the result (when the function returns).
LoopMatch(r, tc) ==
    IF r.ok
    THEN [pc |-> "done", try_count |-> tc, result |-> Ok(Into(r.h))]
    ELSE IF tc = 0
         THEN [pc |-> "done", try_count |-> tc, result |-> Err(r.err)]
         ELSE [pc |-> "del89", try_count |-> tc - 1, result |-> NoResult]

\* The retrieval that cleans the slot up on every path, success included.
LoopRetrieve_EraseOnReturn(p) ==
    /\ pc[p] = "get84"
    /\ \E r \in KeypairOutcomes(op[p].slot, slots[op[p].slot]) :
          LET m == LoopMatch(r, try_count[p]) IN
          /\ lastGet' = [lastGet EXCEPT ![p] = r]
          /\ Log(p, "keypair", r.ok)
          /\ pc' = [pc EXCEPT ![p] = m.pc]
          /\ try_count' = [try_count EXCEPT ![p] = m.try_count]
          /\ result' = [result EXCEPT ![p] = m.result]
          /\ slots' = [slots EXCEPT ![op[p].slot] = IF r.ok THEN DelWritten ELSE @]
    /\ UNCHANGED <<calls, op, keypair, signature,
                   ecc_shared_secret, other_shared_secret, pre, lastGen, aside>>

\* The retrieval that erases the slot before giving up.
LoopRetrieve_EraseOnGiveUp(p) ==
    /\ pc[p] = "get84"
    /\ \E r \in KeypairOutcomes(op[p].slot, slots[op[p].slot]) :
          LET m == LoopMatch(r, try_count[p]) IN
          /\ lastGet' = [lastGet EXCEPT ![p] = r]
          /\ Log(p, "keypair", r.ok)
          /\ pc' = [pc EXCEPT ![p] = m.pc]
          /\ try_count' = [try_count EXCEPT ![p] = m.try_count]
          /\ result' = [result EXCEPT ![p] = m.result]
          /\ slots' = [slots EXCEPT ![op[p].slot] =
                          IF ~r.ok /\ m.pc = "done" THEN DelWritten ELSE @]
    /\ UNCHANGED <<calls, op, keypair, signature,
                   ecc_shared_secret, other_shared_secret, pre, lastGen, aside>>

LoopRetrieve(p) ==
    /\ pc[p] = "get84"
    /\ \E r \in KeypairOutcomes(op[p].slot, slots[op[p].slot]) :
          LET m == LoopMatch(r, try_count[p]) IN
          /\ lastGet' = [lastGet EXCEPT ![p] = r]
          /\ Log(p, "keypair", r.ok)
          /\ pc' = [pc EXCEPT ![p] = m.pc]
          /\ try_count' = [try_count EXCEPT ![p] = m.try_count]
          /\ result' = [result EXCEPT ![p] = m.result]
    /\ UNCHANGED <<slots, calls, op, keypair, signature,
                   ecc_shared_secret, other_shared_secret, pre, lastGen, aside>>

\* generate_compact_key_in_slot, line 89: del_ecc_keypair(slot)?
\* The line reached after a deletion that succeeded.
AfterDelete == "gen82"

DelOk(p) ==
    /\ pc[p] = "del89"
    /\ slots' = [slots EXCEPT ![op[p].slot] = DelWritten]
    /\ lastGen' = [lastGen EXCEPT ![p] = NoKey]
    /\ Log(p, "del", TRUE)
    /\ pc' = [pc EXCEPT ![p] = AfterDelete]
    /\ UNCHANGED <<calls, op, locals, result, lastGet, pre, aside>>

\* A failed deletion that is ignored: the loop goes on.
DelFailMatch_Ignore(e) == [pc |-> "gen82", result |-> NoResult]

\* What a failed deletion does to the call: line, and result when it returns.
DelFailMatch(e) == [pc |-> "done", result |-> Err(e)]

DelFail(p) ==
    /\ pc[p] = "del89"
    /\ \E c \in DelFailed(slots[op[p].slot]) :
          slots' = [slots EXCEPT ![op[p].slot] = c]
    /\ Log(p, "del", FALSE)
    /\ LET m == DelFailMatch(Error("HardwareError", "del_ecc_keypair")) IN
          /\ pc' = [pc EXCEPT ![p] = m.pc]
          /\ result' = [result EXCEPT ![p] = m.result]
    /\ UNCHANGED <<calls, op, locals, lastGet, pre, lastGen, aside>>


\* ------------------------------------------------------------------ self tests
TestKinds == {"MinerKey", "Sign", "Ecdh"}

\* A run whose MinerKey check provisions the slot instead of reading it.
RunEntry_Create(kind) ==
    CASE kind = "MinerKey" -> "gen82"
      [] kind = "Sign" -> "sign136"
      [] kind = "Ecdh" -> "ecdh144"

\* Test::run: the match on the test kind (lines 122-126).
RunEntry(kind) ==
    CASE kind = "MinerKey" -> "mk130"
      [] kind = "Sign" -> "sign136"
      [] kind = "Ecdh" -> "ecdh144"

run(p) ==
    /\ \E s \in Slots, kind \in TestKinds :
          /\ Admit(s)
          /\ Enter(p, [fn |-> "run", create |-> FALSE, test |-> kind, slot |-> s],
                   RunEntry(kind))
    /\ UNCHANGED try_count

\* The check unwrapping the retrieval: a failure aborts the process.
MinerKeyVerdict_Unwrap(r) ==
    IF r.ok THEN pass(PassKey(public_key(Into(r.h))))
    ELSE Res("panic", NoKeypair, r.err, NoValue, <<>>, <<>>)

\* check_miner_key (lines 130-131).
MinerKeyVerdict(r) ==
    IF r.ok THEN pass(PassKey(public_key(Into(r.h)))) ELSE TestErr(r.err)

\* The check erasing the slot when its retrieval fails.
check_miner_key_Erase(p) ==
    /\ pc[p] = "mk130"
    /\ \E r \in KeypairOutcomes(op[p].slot, slots[op[p].slot]) :
          /\ lastGet' = [lastGet EXCEPT ![p] = r]
          /\ Log(p, "keypair", r.ok)
          /\ Finish(p, MinerKeyVerdict(r))
          /\ slots' = [slots EXCEPT ![op[p].slot] = IF r.ok THEN @ ELSE DelWritten]
    /\ UNCHANGED <<calls, op, locals, pre, lastGen, aside>>

check_miner_key(p) ==
    /\ pc[p] = "mk130"
    /\ \E r \in KeypairOutcomes(op[p].slot, slots[op[p].slot]) :
          /\ lastGet' = [lastGet EXCEPT ![p] = r]
          /\ Log(p, "keypair", r.ok)
          /\ Finish(p, MinerKeyVerdict(r))
    /\ UNCHANGED <<slots, calls, op, locals, pre, lastGen, aside>>

\* The retrieval of a check tried again when it fails.
CheckRetrieve_Retry(p, at, l) ==
    /\ pc[p] = at
    /\ \E r \in KeypairOutcomes(op[p].slot, slots[op[p].slot]) :
          /\ lastGet' = [lastGet EXCEPT ![p] = r]
          /\ Log(p, "keypair", r.ok)
          /\ keypair' = [keypair EXCEPT ![p] = IF r.ok THEN Into(r.h) ELSE @]
          /\ pc' = [pc EXCEPT ![p] = IF r.ok THEN l ELSE at]
    /\ UNCHANGED <<slots, calls, op, try_count, signature, result,
                   ecc_shared_secret, other_shared_secret, pre, lastGen, aside>>

\* let keypair = compact_key_in_slot(slot)?; in check_sign and check_ecdh:
\* on success the check goes on at line l with the keypair, on failure it
\* returns the error.
CheckRetrieve(p, at, l) ==
    /\ pc[p] = at
    /\ \E r \in KeypairOutcomes(op[p].slot, slots[op[p].slot]) :
          /\ lastGet' = [lastGet EXCEPT ![p] = r]
          /\ Log(p, "keypair", r.ok)
          /\ IF r.ok
             THEN /\ keypair' = [keypair EXCEPT ![p] = Into(r.h)]
                  /\ pc' = [pc EXCEPT ![p] = l]
                  /\ UNCHANGED result
             ELSE /\ Finish(p, TestErr(r.err))
                  /\ UNCHANGED keypair
    /\ UNCHANGED <<slots, calls, op, try_count, signature,
                   ecc_shared_secret, other_shared_secret, pre, lastGen, aside>>

\* check_sign, line 136.
CheckSignRetrieve(p) == CheckRetrieve(p, "sign136", "sign137")

\* check_sign, line 137: let signature = keypair.sign(DATA)?; gives the next
\* line and the result (when the check returns).
SignMatch(g) ==
    IF g.ok THEN [pc |-> "sign138", result |-> NoResult]
    ELSE [pc |-> "done", result |-> TestErr(g.err)]

CheckSignSign(p) ==
    /\ pc[p] = "sign137"
    /\ \E g \in SignOutcomes(keypair[p], slots[keypair[p].slot], DATA) :
          LET m == SignMatch(g) IN
          /\ signature' = [signature EXCEPT ![p] = g.sig]
          /\ Log(p, "sign", g.ok)
          /\ pc' = [pc EXCEPT ![p] = m.pc]
          /\ result' = [result EXCEPT ![p] = m.result]
    /\ UNCHANGED <<slots, calls, op, try_count, keypair,
                   ecc_shared_secret, other_shared_secret, lastGet, pre, lastGen, aside>>

\* The check dropping the verification's outcome.
SignVerdict_Ignore(v) == pass(PassOk)

\* check_sign, lines 138-139: verify(DATA, &signature)?; test::pass("ok").
SignVerdict(v) == IF v.ok THEN pass(PassOk) ELSE TestErr(v.err)

CheckSignVerify(p) ==
    /\ pc[p] = "sign138"
    /\ LET v == Verify(public_key(keypair[p]), DATA, signature[p]) IN
          /\ Log(p, "verify", v.ok)
          /\ Finish(p, SignVerdict(v))
    /\ UNCHANGED <<slots, calls, op, locals, lastGet, pre, lastGen, aside>>

\* check_ecdh, lines 144-151 (the peer keypair is made in software).
CheckEcdhRetrieve(p) == CheckRetrieve(p, "ecdh144", "ecdh152")

\* check_ecdh, line 152: keypair.ecdh(other_keypair.public_key())?
CheckEcdhDevice(p) ==
    /\ pc[p] = "ecdh152"
    /\ \E x \in EcdhOutcomes("keypair.ecdh") :
          /\ ecc_shared_secret' = [ecc_shared_secret EXCEPT ![p] = x]
          /\ Log(p, "ecdh", x.ok)
          /\ IF x.ok
             THEN /\ pc' = [pc EXCEPT ![p] = "ecdh153"]
                  /\ UNCHANGED result
             ELSE Finish(p, TestErr(x.err))
    /\ UNCHANGED <<slots, calls, op, try_count, keypair, signature,
                   other_shared_secret, lastGet, pre, lastGen, aside>>

\* The comparison reporting the two secrets the wrong way round.
EcdhVerdict_Swapped(a, b) ==
    IF a # b THEN expected(Hex(b), Hex(a)) ELSE pass(PassOk)

\* check_ecdh, lines 155-162: the comparison of the two secrets' bytes.
EcdhVerdict(a, b) ==
    IF a # b THEN expected(Hex(a), Hex(b)) ELSE pass(PassOk)

\* check_ecdh, line 153: other_keypair.ecdh(&keypair.public_key())?, then
\* the comparison.
CheckEcdhPeer(p) ==
    /\ pc[p] = "ecdh153"
    /\ \E y \in EcdhOutcomes("other_keypair.ecdh") :
          /\ other_shared_secret' = [other_shared_secret EXCEPT ![p] = y]
          /\ Log(p, "ecdh", y.ok)
          /\ Finish(p, IF y.ok
                       THEN EcdhVerdict(ecc_shared_secret[p].bytes, y.bytes)
                       ELSE TestErr(y.err))
    /\ UNCHANGED <<slots, calls, op, try_count, keypair, signature,
                   ecc_shared_secret, lastGet, pre, lastGen, aside>>

\* The call returns to its caller, which takes the result.
Return(p) ==
    /\ pc[p] = "done"
    /\ pc' = [pc EXCEPT ![p] = "idle"]
    /\ op' = [op EXCEPT ![p] = NoOp]
    /\ try_count' = [try_count EXCEPT ![p] = 0]
    /\ keypair' = [keypair EXCEPT ![p] = NoKeypair]
    /\ signature' = [signature EXCEPT ![p] = NoSignature]
    /\ ecc_shared_secret' = [ecc_shared_secret EXCEPT ![p] = NoSecret]
    /\ other_shared_secret' = [other_shared_secret EXCEPT ![p] = NoSecret]
    /\ result' = [result EXCEPT ![p] = NoResult]
    /\ trace' = [trace EXCEPT ![p] = <<>>]
    /\ lastGet' = [lastGet EXCEPT ![p] = NoOutcome]
    /\ pre' = [pre EXCEPT ![p] = NoSlots]
    /\ lastGen' = [lastGen EXCEPT ![p] = NoKey]
    /\ UNCHANGED <<slots, calls, aside>>

\* One step of a call in progress.
Step(p) ==
    \/ GetKeypairRetrieve(p)
    \/ GenOk(p)
    \/ GenFail(p)
    \/ LoopRetrieve(p)
    \/ DelOk(p)
    \/ DelFail(p)
    \/ check_miner_key(p)
    \/ CheckSignRetrieve(p)
    \/ CheckSignSign(p)
    \/ CheckSignVerify(p)
    \/ CheckEcdhRetrieve(p)
    \/ CheckEcdhDevice(p)
    \/ CheckEcdhPeer(p)

Next ==
    \E p \in Procs :
        \/ GetKeypair(p)
        \/ provision(p)
        \/ run(p)
        \/ Step(p)
        \/ Return(p)

Spec == Init /\ [][Next]_vars

\* ------------------------------------------------- provisioning, interleaved
\* Several callers provision, their driver calls interleaved; either each
\* takes the lock of its slot around its call, or none does.
InitConc ==
    /\ HwInit
    /\ sched \in {"lock", "free"}
    /\ device = 0
    /\ NothingShown

\* Caller p may make another driver call.
Within(p) == Len(trace[p]) < MaxDriverCalls

\* Two provisioning calls are made in all, both on one slot.
ProvisionOfTwo(p) ==
    /\ calls <= 1
    /\ \E s \in Slots :
          /\ \A q \in Procs : pc[q] = "idle" \/ op[q].slot = s
          /\ get_keypair(p, s, TRUE, "provision")

NextConc ==
    \E p \in Procs :
        \/ ProvisionOfTwo(p)
        \/ Within(p) /\ GenOk(p)
        \/ Within(p) /\ GenFail(p)
        \/ Within(p) /\ LoopRetrieve(p)
        \/ Within(p) /\ DelOk(p)
        \/ Within(p) /\ DelFail(p)
        \/ Return(p)

SpecConc == InitConc /\ [][NextConc]_vars

\* ------------------------------------------------ read-only calls, interleaved
\* Several callers read the slots (test runs and get_keypair(false)), their
\* driver calls interleaved without any lock; nobody provisions.
InitRead ==
    /\ HwInit
    /\ sched = "free"
    /\ device = 0
    /\ NothingShown

\* Device::get_keypair(false).
Retrieve(p) ==
    \E s \in Slots : get_keypair(p, s, FALSE, "get_keypair")

ReadStep(p) ==
    \/ GetKeypairRetrieve(p)
    \/ check_miner_key(p)
    \/ CheckSignRetrieve(p)
    \/ CheckSignSign(p)
    \/ CheckSignVerify(p)
    \/ CheckEcdhRetrieve(p)
    \/ CheckEcdhDevice(p)
    \/ CheckEcdhPeer(p)

\* Two read-only calls are made in all.
ReadOfTwo(p) ==
    /\ calls <= 1
    /\ \/ Retrieve(p)
       \/ run(p)

NextRead ==
    \E p \in Procs :
        \/ ReadOfTwo(p)
        \/ ReadStep(p)
        \/ Return(p)

SpecRead == InitRead /\ [][NextRead]_vars

\* ------------------------------------------------ the test list and its names
\* A text is the sequence of its characters.
DecDigits == <<"0", "1", "2", "3", "4", "5", "6", "7", "8", "9">>

RECURSIVE Decimal(_)
\* "{}" of a u8: its decimal digits, most significant first, no padding.
Decimal(n) ==
    IF n < 10 THEN <<DecDigits[n + 1]>>
    ELSE Decimal(n \div 10) \o <<DecDigits[(n % 10) + 1]>>

\* "{:x}" of a u8.
LowerHex(n) ==
    IF n < 16 THEN <<HexDigits[n + 1]>>
    ELSE <<HexDigits[(n \div 16) + 1], HexDigits[(n % 16) + 1]>>

\* The literal text before the slot in each arm of Display (lines 113-115).
FmtLiteral(kind) ==
    CASE kind = "MinerKey" -> <<"m", "i", "n", "e", "r", "_", "k", "e", "y", "(">>
      [] kind = "Sign" -> <<"s", "i", "g", "n", "(">>
      [] kind = "Ecdh" -> <<"e", "c", "d", "h", "(">>

\* The slot written in hexadecimal.
fmt_Hex(t) == FmtLiteral(t.kind) \o LowerHex(t.slot) \o <<")">>

\* impl fmt::Display for Test (lines 110-118).
fmt(t) == FmtLiteral(t.kind) \o Decimal(t.slot) \o <<")">>

\* A test list whose entries all name slot 0.
get_tests_SlotZero(s) ==
    <<Test("MinerKey", 0), Test("Sign", 0), Test("Ecdh", 0)>>

\* Device::get_tests (lines 65-71).
get_tests(s) ==
    <<Test("MinerKey", s), Test("Sign", s), Test("Ecdh", s)>>

\* A device of any slot number a u8 can hold, as from_url makes it.
InitPure ==
    /\ HwInit
    /\ sched = "single"
    /\ device \in 0..MaxU8
    /\ NothingShown

\* device.get_tests()
GetTests ==
    /\ tests' = get_tests(device)
    /\ UNCHANGED <<slots, calls, pc, op, locals, result, trace, lastGet, pre,
                   lastGen, sched, device, shown, name>>

\* One of the tests returned is formatted for display.
Display ==
    /\ \E i \in 1..Len(tests) :
          /\ shown' = tests[i]
          /\ name' = fmt(tests[i])
    /\ UNCHANGED <<slots, calls, pc, op, locals, result, trace, lastGet, pre,
                   lastGen, sched, device, tests>>

NextPure ==
    \/ GetTests
    \/ Display

SpecPure == InitPure /\ [][NextPure]_vars

\* ------------------------------------------------------ reading a call's trace
Gens(p) == Count(trace[p], "gen")
Gets(p) == Count(trace[p], "keypair")
Dels(p) == Count(trace[p], "del")
\* Calls named c in caller p's trace that failed.
Failed(p, c) == Cardinality({i \in 1..Len(trace[p]) : trace[p][i] = Called(c, FALSE)})
LastCall(p) == trace[p][Len(trace[p])]
\* Caller p is inside get_keypair(true), i.e. generate_compact_key_in_slot.
Provisioning(p) == pc[p] # "idle" /\ op[p].create
Running(p, kind) == pc[p] # "idle" /\ op[p].fn = "run" /\ op[p].test = kind
Usable(c) == c.present /\ c.valid

\* C1: when the retrieval after each of the first k generations fails and the
\* retrieval after generation k+1 succeeds (no generation or deletion having
\* failed), k is at most 10 and the provisioning call returns success with the
\* retrieved keypair, after exactly k+1 generate calls and k delete calls.
C1_RetrySuccess ==
    \A p \in Procs :
        (Provisioning(p) /\ trace[p] # <<>> /\ LastCall(p) = Called("keypair", TRUE))
        => LET k == Failed(p, "keypair") IN
           /\ Failed(p, "gen") = 0 /\ Failed(p, "del") = 0
           /\ k <= 10
           /\ pc[p] = "done"
           /\ result[p] = Ok(Into(lastGet[p].h))
           /\ Gens(p) = k + 1
           /\ Dels(p) = k
           /\ Gets(p) = k + 1

\* The tenth retry succeeds: ten failed retrievals, then a successful one.
C1_Witness ==
    \E p \in Procs :
        /\ Provisioning(p) /\ pc[p] = "done" /\ result[p].tag = "ok"
        /\ Failed(p, "keypair") = 10
        /\ Gens(p) = 11 /\ Dels(p) = 10

\* C2: when the retrieval fails after every generation, the provisioning call
\* returns the error of the last, 11th retrieval after exactly 11 generate
\* calls and 10 delete calls; and it returns a retrieval error in no other
\* case.
C2_RetryExhausted ==
    \A p \in Procs :
        Provisioning(p) =>
            /\ Failed(p, "keypair") <= 11
            /\ Failed(p, "keypair") = 11 =>
                  /\ pc[p] = "done"
                  /\ ~lastGet[p].ok
                  /\ result[p] = Err(lastGet[p].err)
                  /\ LastCall(p) = Called("keypair", FALSE)
                  /\ Gens(p) = 11
                  /\ Gets(p) = 11
                  /\ Dels(p) = 10
                  /\ Failed(p, "gen") = 0 /\ Failed(p, "del") = 0
            /\ (pc[p] = "done" /\ result[p].tag = "err" /\ result[p].err.from = "keypair")
                  => Failed(p, "keypair") = 11

C2_Witness ==
    \E p \in Procs :
        /\ Provisioning(p) /\ pc[p] = "done"
        /\ result[p] = Err(Error("FormatError", "keypair"))
        /\ Gens(p) = 11 /\ Dels(p) = 10

C4_GetKeypairIsRetrieve ==
    \A p \in Procs :
        (pc[p] # "idle" /\ op[p].fn = "get_keypair" /\ ~op[p].create) =>
            /\ Gens(p) = 0 /\ Dels(p) = 0
            /\ slots = pre[p]
            /\ pc[p] = "done" =>
                  /\ trace[p] = <<Called("keypair", lastGet[p].ok)>>
                  /\ lastGet[p] \in KeypairOutcomes(op[p].slot, pre[p][op[p].slot])
                  /\ lastGet[p].ok =>
                        /\ result[p].tag = "ok"
                        /\ result[p].keypair.id = pre[p][op[p].slot].id
                        /\ result[p].keypair.slot = op[p].slot
                  /\ ~lastGet[p].ok => result[p] = Err(lastGet[p].err)

\* get_keypair(false) has returned the keypair of a slot holding a usable key.
C4_Witness ==
    \E p \in Procs :
        /\ pc[p] = "done" /\ op[p].fn = "get_keypair" /\ ~op[p].create
        /\ result[p].tag = "ok"
        /\ Usable(slots[op[p].slot])

\* A retrieval error has come back from get_keypair(false) as it was.
C4_WitnessError ==
    \E p \in Procs :
        /\ pc[p] = "done" /\ op[p].fn = "get_keypair" /\ ~op[p].create
        /\ result[p] = Err(Error("FormatError", "keypair"))

\* C5: a delete call that fails is the last call of the provisioning call,
\* which returns the deletion's error at once, whatever is left of the retry
\* budget.
C5_DeleteFailureAborts ==
    \A p \in Procs :
        Provisioning(p) =>
            \A i \in 1..Len(trace[p]) :
                trace[p][i] = Called("del", FALSE) =>
                    /\ i = Len(trace[p])
                    /\ pc[p] = "done"
                    /\ result[p] = Err(Error("HardwareError", "del_ecc_keypair"))
                    /\ trace[p][i - 1] = Called("keypair", FALSE)

\* The first deletion fails with nine retries left.
C5_Witness ==
    \E p \in Procs :
        /\ Provisioning(p) /\ pc[p] = "done"
        /\ LastCall(p) = Called("del", FALSE)
        /\ try_count[p] = 9
        /\ Gens(p) = 1

\* C6: a test run, of any kind and with any outcome, makes no generate and no
\* delete call and leaves every slot as it found it; slots change only inside
\* get_keypair(true).
C6_TestsLeaveSlots ==
    \A p \in Procs :
        /\ (pc[p] # "idle" /\ op[p].fn = "run") =>
              /\ Gens(p) = 0 /\ Dels(p) = 0
              /\ slots = pre[p]
              /\ pc[p] \notin {"gen82", "get84", "del89"}
        /\ (pc[p] # "idle" /\ slots # pre[p]) =>
              (op[p].create /\ op[p].fn \in {"get_keypair", "provision"})

\* An Ecdh run on a slot holding a usable key has ended in a mismatch.
C6_Witness ==
    \E p \in Procs :
        /\ pc[p] = "done" /\ op[p].fn = "run"
        /\ result[p].tag = "mismatch"
        /\ Usable(slots[op[p].slot])

\* C7: a provisioning call makes at most 11 generate calls, 11 retrievals and
\* 10 delete calls, 32 calls in all; until it has returned its next call is
\* always ready to be made, and every step adds one call to the 32, so the
\* call returns whatever the driver answers.
C7_ProvisionTerminates ==
    \A p \in Procs :
        Provisioning(p) =>
            /\ Gens(p) <= 11
            /\ Gets(p) <= 11
            /\ Dels(p) <= 10
            /\ Len(trace[p]) = Gens(p) + Gets(p) + Dels(p)
            /\ Len(trace[p]) + (IF pc[p] = "done" THEN 0 ELSE 1) <= 32
            /\ pc[p] \in {"gen82", "get84", "del89", "done"}
            /\ pc[p] # "done" => ENABLED Step(p)

\* The longest call: 11 generations, 11 retrievals, 10 deletions.
C7_Witness ==
    \E p \in Procs :
        /\ Provisioning(p) /\ pc[p] = "done"
        /\ Gens(p) = 11 /\ Gets(p) = 11 /\ Dels(p) = 10

\* C8: an Ecdh run passes with "ok" exactly when the retrieval and both ECDH
\* computations succeed and the two secrets are equal byte for byte; when both
\* succeed and the secrets differ the result is a mismatch whose expected
\* field is the hexadecimal rendering of the device's secret and whose actual
\* field that of the peer's; when the retrieval or an ECDH call fails the
\* result is a failure carrying that error.
C8_EcdhVerdict ==
    \A p \in Procs :
        (Running(p, "Ecdh") /\ pc[p] = "done") =>
            LET a == ecc_shared_secret[p]
                b == other_shared_secret[p]
            IN
            /\ result[p] = pass(PassOk)
                  <=> (lastGet[p].ok /\ a.ok /\ b.ok /\ a.bytes = b.bytes)
            /\ (lastGet[p].ok /\ a.ok /\ b.ok /\ a.bytes # b.bytes) =>
                  /\ result[p].tag = "mismatch"
                  /\ result[p].expected = Hex(a.bytes)
                  /\ result[p].actual = Hex(b.bytes)
                  /\ result[p].expected # result[p].actual
                  /\ Len(result[p].expected) = 2 * SecretLen
                  /\ \A i \in 1..Len(result[p].expected) :
                        \E d \in 1..16 : result[p].expected[i] = HexDigits[d]
            /\ ~lastGet[p].ok =>
                  (result[p] = TestErr(lastGet[p].err) /\ Len(trace[p]) = 1)
            /\ (lastGet[p].ok /\ ~a.ok) =>
                  (result[p] = TestErr(a.err) /\ Len(trace[p]) = 2)
            /\ (lastGet[p].ok /\ a.ok /\ ~b.ok) => result[p] = TestErr(b.err)

\* The two secrets differ: the device's is af, the peer's 00 (one byte each
\* at the model's secret length).
C8_Witness ==
    \E p \in Procs :
        /\ Running(p, "Ecdh") /\ pc[p] = "done"
        /\ result[p].tag = "mismatch"
        /\ result[p].expected[1] = "a" /\ result[p].expected[2] = "f"
        /\ result[p].actual[1] = "0" /\ result[p].actual[2] = "0"

\* The two secrets agree and the run passes.
C8_WitnessPass ==
    \E p \in Procs :
        /\ Running(p, "Ecdh") /\ pc[p] = "done"
        /\ result[p] = pass(PassOk)

\* C9: a Sign run passes with "ok" exactly when the retrieval, the signing of
\* "hello world" and the verification of that signature against the same
\* keypair's public key and the same message all succeed; every other run
\* ends in a failure carrying the error of the call that failed, and the
\* verification is not attempted when the signing fails.
C9_SignVerdict ==
    \A p \in Procs :
        Running(p, "Sign") =>
            /\ \A i \in 1..Len(trace[p]) :
                  trace[p][i].call = "verify" =>
                      (i = 3 /\ trace[p][2] = Called("sign", TRUE))
            /\ pc[p] = "done" =>
                  /\ result[p] = pass(PassOk)
                        <=> trace[p] = <<Called("keypair", TRUE), Called("sign", TRUE),
                                         Called("verify", TRUE)>>
                  /\ result[p] = pass(PassOk) =>
                        /\ signature[p].msg = "hello world"
                        /\ signature[p].signer = keypair[p].id
                        /\ signature[p].intact
                        /\ keypair[p] = Into(lastGet[p].h)
                  /\ result[p] # pass(PassOk) =>
                        /\ result[p].tag = "error"
                        /\ ~LastCall(p).ok
                        /\ result[p].err.from = LastCall(p).call
                  /\ (Len(trace[p]) >= 2 /\ trace[p][2] = Called("sign", TRUE)
                      /\ ~signature[p].intact)
                        => result[p] = TestErr(Error("CryptoError", "verify"))

\* A signature was made and did not verify.
C9_Witness ==
    \E p \in Procs :
        /\ Running(p, "Sign") /\ pc[p] = "done"
        /\ trace[p] = <<Called("keypair", TRUE), Called("sign", TRUE),
                        Called("verify", FALSE)>>

\* A signature was made and verified.
C9_WitnessPass ==
    \E p \in Procs :
        /\ Running(p, "Sign") /\ pc[p] = "done"
        /\ result[p] = pass(PassOk)

\* C10: a MinerKey run passes exactly when the retrieval succeeds, and then
\* with the public key of the keypair the slot holds; on an empty slot, a
\* hardware fault or stored bytes that do not decode it ends in a failure
\* carrying the retrieval's error, never in anything else.
C10_MinerKeyVerdict ==
    \A p \in Procs :
        (Running(p, "MinerKey") /\ pc[p] = "done") =>
            LET c == slots[op[p].slot] IN
            /\ trace[p] = <<Called("keypair", lastGet[p].ok)>>
            /\ result[p].tag \in {"pass", "error"}
            /\ result[p].tag = "pass" <=> lastGet[p].ok
            /\ lastGet[p].ok =>
                  /\ Usable(c)
                  /\ result[p] = pass(PassKey([kind |-> "Keypair::TEE", id |-> c.id]))
            /\ ~lastGet[p].ok => result[p] = TestErr(lastGet[p].err)
            /\ ~c.present => result[p] = TestErr(Error("HardwareError", "keypair"))
            /\ (c.present /\ ~c.valid) =>
                  result[p].err.kind \in {"FormatError", "HardwareError"}

\* The stored bytes do not decode: the run fails with a format error.
C10_Witness ==
    \E p \in Procs :
        /\ Running(p, "MinerKey") /\ pc[p] = "done"
        /\ slots[op[p].slot].present /\ ~slots[op[p].slot].valid
        /\ result[p] = TestErr(Error("FormatError", "keypair"))

\* The slot holds a usable key: the run passes with its public key.
C10_WitnessPass ==
    \E p \in Procs :
        /\ Running(p, "MinerKey") /\ pc[p] = "done"
        /\ result[p].tag = "pass"

\* C11: a test run of any kind makes exactly one retrieval, as its first
\* call; when that retrieval fails the run has ended with a failed result
\* carrying the retrieval's error, and no second retrieval and no sign,
\* verify or ECDH call follows.
C11_TestsSingleShot ==
    \A p \in Procs :
        (pc[p] # "idle" /\ op[p].fn = "run") =>
            /\ Gets(p) <= 1
            /\ trace[p] # <<>> => trace[p][1].call = "keypair"
            /\ pc[p] = "done" => Gets(p) = 1
            /\ (trace[p] # <<>> /\ ~trace[p][1].ok) =>
                  /\ trace[p] = <<Called("keypair", FALSE)>>
                  /\ pc[p] = "done"
                  /\ result[p] = TestErr(lastGet[p].err)

\* A Sign run whose retrieval met a hardware fault: it ended there.
C11_Witness ==
    \E p \in Procs :
        /\ Running(p, "Sign") /\ pc[p] = "done"
        /\ Usable(slots[op[p].slot])
        /\ trace[p] = <<Called("keypair", FALSE)>>
        /\ result[p] = TestErr(Error("HardwareError", "keypair"))

\* C12: when the callers take the lock of the slot around their calls, no
\* caller's key is deleted or overwritten between its generation and its
\* retrieval, and a call that returns success returns the keypair the slot
\* holds; without the lock an execution is reachable (C12_Witness) in which a
\* call has success with a keypair the slot no longer holds.
C12_LockedProvisionSafe ==
    sched = "lock" =>
        \A p \in Procs :
            Provisioning(p) =>
                /\ pc[p] = "get84" => slots[op[p].slot] = lastGen[p]
                /\ (pc[p] = "done" /\ result[p].tag = "ok") =>
                      /\ Usable(slots[op[p].slot])
                      /\ slots[op[p].slot].id = result[p].keypair.id
                      /\ slots[op[p].slot] = lastGen[p]

\* Without the lock: a call holds Ok(keypair) while another call, in
\* progress on the same slot, has overwritten or deleted that key.
C12_Witness ==
    /\ sched = "free"
    /\ \E p, q \in Procs :
          /\ p # q
          /\ Provisioning(p) /\ pc[p] = "done" /\ result[p].tag = "ok"
          /\ Provisioning(q) /\ op[q].slot = op[p].slot
          /\ slots[op[p].slot].id # result[p].keypair.id

\* Without the lock: the key a call has just generated is gone before the
\* call retrieves it.
C12_WitnessDeleted ==
    /\ sched = "free"
    /\ \E p \in Procs :
          /\ Provisioning(p) /\ pc[p] = "get84"
          /\ ~slots[op[p].slot].present

\* With the lock: two calls on one slot, the second made after the first
\* returned, and it has success.
C12_WitnessLocked ==
    /\ sched = "lock"
    /\ calls = 2
    /\ \E p \in Procs : Provisioning(p) /\ pc[p] = "done" /\ result[p].tag = "ok"

\* C13: while test runs and get_keypair(false) calls are interleaved on a slot
\* and nobody provisions, the slots stay as every caller found them, each
\* caller's retrieval has an outcome the contents at its entry allow (what it
\* would get alone), and two callers that both retrieved a keypair from one
\* slot hold the same keypair, the one the slot stores.
C13_ReadersUndisturbed ==
    \A p \in Procs :
        pc[p] # "idle" =>
            /\ ~op[p].create
            /\ slots = pre[p]
            /\ Gens(p) = 0 /\ Dels(p) = 0
            /\ lastGet[p] # NoOutcome =>
                  /\ lastGet[p] \in KeypairOutcomes(op[p].slot, pre[p][op[p].slot])
                  /\ lastGet[p].ok =>
                        /\ Usable(slots[op[p].slot])
                        /\ lastGet[p].h = TeeKeypair(op[p].slot, slots[op[p].slot].id)
            /\ signature[p] # NoSignature =>
                  signature[p].signer = slots[op[p].slot].id
            /\ \A q \in Procs :
                  (pc[q] # "idle" /\ op[q].slot = op[p].slot
                   /\ lastGet[p].ok /\ lastGet[q].ok) => lastGet[p].h = lastGet[q].h

\* A Sign run is between its retrieval and its signature while a
\* get_keypair(false) on the same slot has returned the same keypair.
C13_Witness ==
    \E p, q \in Procs :
        /\ p # q
        /\ Running(p, "Sign") /\ pc[p] = "sign137"
        /\ pc[q] = "done" /\ op[q].fn = "get_keypair" /\ op[q].slot = op[p].slot
        /\ result[q] = Ok(keypair[p])
        /\ keypair[p] # NoKeypair

\* Two runs in progress at once on one slot, one of them ended, the other
\* not yet at its retrieval.
C13_WitnessTwoRuns ==
    \E p, q \in Procs :
        /\ p # q
        /\ Running(p, "MinerKey") /\ pc[p] = "done" /\ result[p].tag = "error"
        /\ Running(q, "Ecdh") /\ pc[q] = "ecdh144" /\ op[q].slot = op[p].slot

\* C14: get_tests on a device with slot s returns three tests, of kinds
\* MinerKey, Sign, Ecdh in this order, each carrying s, for every s a u8 holds.
C14_GetTestsList ==
    tests # <<>> =>
        /\ Len(tests) = 3
        /\ <<tests[1].kind, tests[2].kind, tests[3].kind>> = <<"MinerKey", "Sign", "Ecdh">>
        /\ \A i \in 1..3 : tests[i].slot = device

\* The list of the device with the largest slot number.
C14_Witness == tests # <<>> /\ device = MaxU8 /\ tests[3] = Test("Ecdh", MaxU8)

\* The list of a device whose slot number is neither 0 nor the largest.
C14_WitnessMid == tests # <<>> /\ device = 3 /\ tests[1] = Test("MinerKey", 3)

\* Reading a text of decimal digits back as a number.
DigitValue(ch) == CHOOSE d \in 0..9 : DecDigits[d + 1] = ch
RECURSIVE DecValue(_)
DecValue(ds) ==
    IF ds = <<>> THEN 0
    ELSE 10 * DecValue(SubSeq(ds, 1, Len(ds) - 1)) + DigitValue(ds[Len(ds)])
IsDecimalOf(ds, n) ==
    /\ Len(ds) \in 1..3
    /\ \A i \in 1..Len(ds) : \E d \in 0..9 : DecDigits[d + 1] = ds[i]
    /\ Len(ds) > 1 => ds[1] # "0"
    /\ DecValue(ds) = n
\* Every Test there is.
AllTests == {Test(k, s) : k \in TestKinds, s \in 0..MaxU8}
\* The text before the slot in the name of each kind.
NamePrefix ==
    [MinerKey |-> <<"m", "i", "n", "e", "r", "_", "k", "e", "y", "(">>,
     Sign |-> <<"s", "i", "g", "n", "(">>,
     Ecdh |-> <<"e", "c", "d", "h", "(">>]

\* C15: the display name of MinerKey(n) is miner_key(n), of Sign(n) sign(n),
\* of Ecdh(n) ecdh(n), n written in decimal, for every n a u8 holds; no other
\* test has the same name.
C15_TestNames ==
    shown # NoTest =>
        LET pfx == NamePrefix[shown.kind]
            n == Len(name)
        IN /\ n >= Len(pfx) + 2
           /\ SubSeq(name, 1, Len(pfx)) = pfx
           /\ name[n] = ")"
           /\ IsDecimalOf(SubSeq(name, Len(pfx) + 1, n - 1), shown.slot)
           /\ \A t \in AllTests : fmt(t) = name => t = shown

\* Ecdh(255) is shown as ecdh(255).
C15_Witness ==
    /\ shown = Test("Ecdh", MaxU8)
    /\ name = <<"e", "c", "d", "h", "(", "2", "5", "5", ")">>

\* MinerKey(3) is shown as miner_key(3), Sign(10) as sign(10).
C15_WitnessMinerKey ==
    /\ shown = Test("MinerKey", 3)
    /\ name = <<"m", "i", "n", "e", "r", "_", "k", "e", "y", "(", "3", ")">>

C15_WitnessSign ==
    /\ shown = Test("Sign", 10)
    /\ name = <<"s", "i", "g", "n", "(", "1", "0", ")">>

\* The line a provisioning call is at, told from which calls it has made
\* and which of them failed, and from nothing else.
LineAfter(p) ==
    IF trace[p] = <<>> THEN "gen82"
    ELSE LET l == LastCall(p) IN
         CASE l = Called("gen", TRUE) -> "get84"
           [] l = Called("gen", FALSE) -> "done"
           [] l = Called("keypair", TRUE) -> "done"
           [] l = Called("keypair", FALSE) ->
                 IF Failed(p, "keypair") = TryCount + 1 THEN "done" ELSE "del89"
           [] l = Called("del", TRUE) -> "gen82"
           [] l = Called("del", FALSE) -> "done"

\* C16: inside provision the call's next step and its remaining budget are
\* determined by which of its driver calls failed, whatever error a failed
\* retrieval returned: after a failed retrieval with budget left the budget
\* is one less and the next call is the deletion, for a format error as for
\* a hardware error.
C16_AnyRetrievalFailureRetried ==
    \A p \in Procs :
        Provisioning(p) =>
            /\ pc[p] = LineAfter(p)
            /\ try_count[p] =
                  TryCount - (IF Failed(p, "keypair") > TryCount THEN TryCount
                              ELSE Failed(p, "keypair"))
            /\ (trace[p] # <<>> /\ LastCall(p) = Called("keypair", FALSE)) =>
                  /\ lastGet[p].err.kind \in {"FormatError", "HardwareError"}
                  /\ pc[p] = "done" => result[p] = Err(lastGet[p].err)

\* A retrieval failed with a format error, the second one of the call, and
\* the deletion comes next.
C16_Witness ==
    \E p \in Procs :
        /\ Provisioning(p) /\ pc[p] = "del89"
        /\ lastGet[p].err.kind = "FormatError"
        /\ Failed(p, "keypair") = 2 /\ try_count[p] = TryCount - 2

\* The same point reached with a hardware error.
C16_WitnessHardware ==
    \E p \in Procs :
        /\ Provisioning(p) /\ pc[p] = "del89"
        /\ lastGet[p].err.kind = "HardwareError"
        /\ Failed(p, "keypair") = 2 /\ try_count[p] = TryCount - 2

\* C17: a failed generate call is the last driver call of its provisioning
\* call, on the first attempt or a later one: the call has returned the
\* generation's error, no retrieval or deletion follows, and the counter is
\* what it was before the generation.
C17_GenerateFailureReturns ==
    \A p \in Procs :
        Provisioning(p) =>
            \A i \in 1..Len(trace[p]) :
                trace[p][i] = Called("gen", FALSE) =>
                    /\ i = Len(trace[p])
                    /\ pc[p] = "done"
                    /\ result[p] = Err(Error("HardwareError", "gen_ecc_keypair"))
                    /\ try_count[p] = TryCount - Dels(p)
                    /\ Gets(p) = Gens(p) - 1

\* The generation failed on the second attempt, nine retries left.
C17_Witness ==
    \E p \in Procs :
        /\ Provisioning(p) /\ pc[p] = "done"
        /\ trace[p] = <<Called("gen", TRUE), Called("keypair", FALSE),
                        Called("del", TRUE), Called("gen", FALSE)>>
        /\ try_count[p] = TryCount - 1
        /\ result[p].tag = "err"

\* The generation failed on the first attempt, the whole budget left.
C17_WitnessFirst ==
    \E p \in Procs :
        /\ Provisioning(p) /\ pc[p] = "done"
        /\ trace[p] = <<Called("gen", FALSE)>>
        /\ try_count[p] = TryCount

\* C18: with one call at a time on the device, a provisioning call that has
\* success has returned; its last two driver calls are a generation and the
\* retrieval, both successful, no deletion after them; the keypair returned is
\* the key that generation wrote, and the slot holds it.
C18_SuccessReturnsLastGenerated ==
    \A p \in Procs :
        (Provisioning(p) /\ result[p].tag = "ok") =>
            LET n == Len(trace[p])
                s == op[p].slot
            IN /\ pc[p] = "done"
               /\ n >= 2
               /\ trace[p][n] = Called("keypair", TRUE)
               /\ trace[p][n - 1] = Called("gen", TRUE)
               /\ lastGen[p] # NoKey
               /\ result[p].keypair = Into(TeeKeypair(s, lastGen[p].id))
               /\ slots[s] = lastGen[p]
               /\ Usable(slots[s])
               /\ \A q \in Procs : q # p => pc[q] = "idle"

\* Success on the second attempt, on a slot that held a usable key before:
\* the keypair returned is neither that key nor the first one generated.
C18_Witness ==
    \E p \in Procs :
        /\ Provisioning(p) /\ pc[p] = "done" /\ result[p].tag = "ok"
        /\ Gens(p) = 2 /\ Dels(p) = 1
        /\ Usable(pre[p][op[p].slot])
        /\ result[p].keypair.id # pre[p][op[p].slot].id
        /\ slots[op[p].slot].id = result[p].keypair.id

\* C19: when a provisioning call gives up after its 11th failed retrieval,
\* that retrieval is its last driver call (10 deletions were made, none after
\* it), and the slot is not empty: it holds the key the 11th generate call
\* wrote, which the call could not retrieve.
C19_NoCleanupAfterLastAttempt ==
    \A p \in Procs :
        (Provisioning(p) /\ Failed(p, "keypair") = TryCount + 1) =>
            LET n == Len(trace[p])
                s == op[p].slot
            IN /\ pc[p] = "done"
               /\ result[p] = Err(lastGet[p].err)
               /\ trace[p][n] = Called("keypair", FALSE)
               /\ trace[p][n - 1] = Called("gen", TRUE)
               /\ Gens(p) = TryCount + 1
               /\ Dels(p) = TryCount
               /\ slots[s].present
               /\ slots[s] = lastGen[p]
               /\ slots[s].id \notin {pre[p][r].id : r \in Slots}
               /\ lastGet[p].err.kind = "FormatError" => ~Usable(slots[s])

\* The call gave up on a format error: the slot holds the 11th key, which
\* does not decode.
C19_Witness ==
    \E p \in Procs :
        /\ Provisioning(p) /\ pc[p] = "done"
        /\ Failed(p, "keypair") = TryCount + 1
        /\ result[p] = Err(Error("FormatError", "keypair"))
        /\ slots[op[p].slot].present /\ ~slots[op[p].slot].valid

\* C20 as stated: throughout a provisioning call the counter is within 0..10,
\* at every point the delete calls issued so far number 10 minus the counter,
\* and the generate calls issued so far at most 11 minus the counter.
C20_DeletesEqualBudgetSpent ==
    \A p \in Procs :
        Provisioning(p) =>
            /\ try_count[p] \in 0..TryCount
            /\ Dels(p) = TryCount - try_count[p]
            /\ Gens(p) <= TryCount + 1 - try_count[p]

\* C20, amended: the counter is within 0..10 and the generate calls number at
\* most 11 minus the counter; the delete calls issued number 10 minus the
\* counter except between the decrement (line 88) and the delete call that
\* follows it (line 89), where the counter is already one less and the delete
\* calls number 9 minus the counter.
C20_CounterInvariant ==
    \A p \in Procs :
        Provisioning(p) =>
            /\ try_count[p] \in 0..TryCount
            /\ Dels(p) = TryCount - try_count[p] - (IF pc[p] = "del89" THEN 1 ELSE 0)
            /\ Gens(p) <= TryCount + 1 - try_count[p]
            /\ Gens(p) >= TryCount - try_count[p]

\* The counter has been decremented for the third time and the third delete
\* call is not yet issued.
C20_Witness ==
    \E p \in Procs :
        /\ Provisioning(p) /\ pc[p] = "del89"
        /\ try_count[p] = TryCount - 3
        /\ Dels(p) = 2
        /\ Gens(p) = 3

\* The counter at 0 with the call still in progress: the 11th generation.
C20_WitnessZero ==
    \E p \in Procs :
        /\ Provisioning(p) /\ pc[p] = "get84"
        /\ try_count[p] = 0
        /\ Dels(p) = TryCount /\ Gens(p) = TryCount + 1

====
